---- MODULE Spec2Model ----
(***************************************************************************)
(* Model of config/CConfig.py: the repository configuration table.         *)
(*                                                                         *)
(* Strings are sequences of tokens.  A token is either a path separator    *)
(* ("/" or "\\"), a drive ("C:"), one of the special names "." and "..",   *)
(* or an indivisible piece of text.  String concatenation is \o.           *)
(* A Python value is a record [t, v]: t = "str" (v the tokens), t = "none" *)
(* (None) or t = "list" (v the elements).                                  *)
(***************************************************************************)
EXTENDS Integers, Sequences, FiniteSets, TLC

VARIABLES
    sPlatformSystem,   \* platform.system()
    pandoc,            \* outcome of pypandoc.get_pandoc_path()
    environ,           \* value of the environment variable ROBOTLATEXPATH
    files,             \* the paths for which os.path.isfile is True
    pc,                \* "Uninitialized", "Ready" or "Failed"
    sReferencePath,    \* the argument CConfig() was constructed with
    dictConfig,        \* self.__dictConfig: sequence of [k, v], insertion order
    exception,         \* the message of the Exception raised by __init__
    out,               \* what was written to stdout and stderr, in order
    last,              \* the most recent call on the instance and its result
    nCalls             \* number of calls made on the instance

vars == <<sPlatformSystem, pandoc, environ, files, pc, sReferencePath,
          dictConfig, exception, out, last, nCalls>>

\* Number of Get / PrintConfig calls explored on one instance.
MaxCalls == 2

------------------------------------------------------------------------------
(* Python values *)

None == [t |-> "none", v |-> <<>>]

Str(s) == [t |-> "str", v |-> s]

List(s) == [t |-> "list", v |-> s]

RECURSIVE ListRepr(_)
ListRepr(s) ==
    IF s = <<>> THEN <<>>
    ELSE <<"'", Head(s), "'">>
         \o (IF Len(s) > 1 THEN <<", ">> ELSE <<>>) \o ListRepr(Tail(s))

\* str(value), as used by PrintConfig and by f-strings
StrOf(val) ==
    CASE val.t = "str"  -> val.v
      [] val.t = "none" -> <<"None">>
      [] val.t = "list" -> <<"[">> \o ListRepr(val.v) \o <<"]">>

------------------------------------------------------------------------------
(* the dictionary self.__dictConfig *)

DictHas(dict, k) == \E i \in 1..Len(dict) : dict[i].k = k

DictGet(dict, k) == dict[CHOOSE i \in 1..Len(dict) : dict[i].k = k].v

DictSet(dict, k, val) ==
    IF DictHas(dict, k)
    THEN [i \in 1..Len(dict) |-> IF dict[i].k = k THEN [k |-> k, v |-> val] ELSE dict[i]]
    ELSE Append(dict, [k |-> k, v |-> val])

DictKeys(dict) == {dict[i].k : i \in 1..Len(dict)}

------------------------------------------------------------------------------
(* os.path *)

RECURSIVE SplitAcc(_, _, _, _)
SplitAcc(s, seps, cur, acc) ==
    IF s = <<>> THEN Append(acc, cur)
    ELSE IF Head(s) \in seps
         THEN SplitAcc(Tail(s), seps, <<>>, Append(acc, cur))
         ELSE SplitAcc(Tail(s), seps, Append(cur, Head(s)), acc)

\* str.split(sep): the components between separators (empty ones included)
Split(s, seps) == SplitAcc(s, seps, <<>>, <<>>)

RECURSIVE Join(_, _)
Join(comps, sep) ==
    IF comps = <<>> THEN <<>>
    ELSE IF Len(comps) = 1 THEN Head(comps)
    ELSE Head(comps) \o <<sep>> \o Join(Tail(comps), sep)

RECURSIVE LStrip(_, _)
LStrip(s, seps) ==
    IF s # <<>> /\ Head(s) \in seps THEN LStrip(Tail(s), seps) ELSE s

RECURSIVE RStrip(_, _)
RStrip(s, seps) ==
    IF s # <<>> /\ s[Len(s)] \in seps THEN RStrip(SubSeq(s, 1, Len(s) - 1), seps) ELSE s

Replace(s, from, to) == [i \in 1..Len(s) |-> IF s[i] = from THEN to ELSE s[i]]

StartsWith(s, prefix) ==
    Len(s) >= Len(prefix) /\ SubSeq(s, 1, Len(prefix)) = prefix

\* "sub in s" for strings
Contains(s, sub) ==
    \E i \in 0..(Len(s) - Len(sub)) : SubSeq(s, i + 1, i + Len(sub)) = sub

RECURSIVE PosixCollapse(_, _, _)
PosixCollapse(comps, new, initial) ==
    IF comps = <<>> THEN new
    ELSE LET comp == Head(comps) IN
         IF comp = <<>> \/ comp = <<".">>
         THEN PosixCollapse(Tail(comps), new, initial)
         ELSE IF \/ comp # <<"..">>
                 \/ (initial = 0 /\ new = <<>>)
                 \/ (new # <<>> /\ new[Len(new)] = <<"..">>)
         THEN PosixCollapse(Tail(comps), Append(new, comp), initial)
         ELSE IF new # <<>>
         THEN PosixCollapse(Tail(comps), SubSeq(new, 1, Len(new) - 1), initial)
         ELSE PosixCollapse(Tail(comps), new, initial)

PosixNormpath(path) ==
    IF path = <<>> THEN <<".">>
    ELSE LET initial == IF ~StartsWith(path, <<"/">>) THEN 0
                        ELSE IF StartsWith(path, <<"/", "/">>)
                                /\ ~StartsWith(path, <<"/", "/", "/">>) THEN 2
                        ELSE 1
             joined == Join(PosixCollapse(Split(path, {"/"}), <<>>, initial), "/")
             res == [i \in 1..initial |-> "/"] \o joined
         IN IF res = <<>> THEN <<".">> ELSE res

Drives == {"C:"}

SplitDrive(p) ==
    IF p # <<>> /\ Head(p) \in Drives
    THEN [drive |-> <<Head(p)>>, path |-> Tail(p)]
    ELSE [drive |-> <<>>, path |-> p]

RECURSIVE NtCollapse(_, _, _)
NtCollapse(comps, new, rooted) ==
    IF comps = <<>> THEN new
    ELSE LET comp == Head(comps) IN
         IF comp = <<>> \/ comp = <<".">>
         THEN NtCollapse(Tail(comps), new, rooted)
         ELSE IF comp = <<"..">>
         THEN IF new # <<>> /\ new[Len(new)] # <<"..">>
              THEN NtCollapse(Tail(comps), SubSeq(new, 1, Len(new) - 1), rooted)
              ELSE IF new = <<>> /\ rooted
              THEN NtCollapse(Tail(comps), new, rooted)
              ELSE NtCollapse(Tail(comps), Append(new, comp), rooted)
         ELSE NtCollapse(Tail(comps), Append(new, comp), rooted)

NtNormpath(path) ==
    LET sd     == SplitDrive(Replace(path, "/", "\\"))
        rooted == StartsWith(sd.path, <<"\\">>)
        prefix == sd.drive \o (IF rooted THEN <<"\\">> ELSE <<>>)
        comps  == NtCollapse(Split(LStrip(sd.path, {"\\"}), {"\\"}), <<>>, rooted)
    IN IF prefix = <<>> /\ comps = <<>> THEN <<".">>
       ELSE prefix \o Join(comps, "\\")

\* os.path.normpath
normpath(osname, path) ==
    IF osname = "nt" THEN NtNormpath(path) ELSE PosixNormpath(path)

\* os.getcwd()
Cwd(osname) ==
    IF osname = "nt" THEN <<"C:", "\\", "work">> ELSE <<"/", "home">>

PosixAbspath(path) ==
    IF StartsWith(path, <<"/">>) THEN PosixNormpath(path)
    ELSE PosixNormpath(Cwd("posix") \o <<"/">> \o path)

NtAbspath(path) ==
    LET p  == NtNormpath(path)
        sd == SplitDrive(p)
    IN IF StartsWith(sd.path, <<"\\">>)
       THEN IF sd.drive # <<>> THEN p ELSE SplitDrive(Cwd("nt")).drive \o p
       ELSE IF sd.drive # <<>> THEN NtNormpath(sd.drive \o <<"\\">> \o sd.path)
       ELSE NtNormpath(Cwd("nt") \o <<"\\">> \o p)

\* os.path.abspath
abspath(osname, path) ==
    IF osname = "nt" THEN NtAbspath(path) ELSE PosixAbspath(path)

RECURSIVE LastSep(_, _)
LastSep(p, seps) ==
    IF p = <<>> THEN 0
    ELSE IF p[Len(p)] \in seps THEN Len(p)
    ELSE LastSep(SubSeq(p, 1, Len(p) - 1), seps)

\* os.path.dirname
dirname(osname, p) ==
    IF osname = "nt"
    THEN LET sd   == SplitDrive(p)
             head == SubSeq(sd.path, 1, LastSep(sd.path, {"/", "\\"}))
             st   == RStrip(head, {"/", "\\"})
         IN sd.drive \o (IF st # <<>> THEN st ELSE head)
    ELSE LET head == SubSeq(p, 1, LastSep(p, {"/"}))
         IN IF head # <<>> /\ RStrip(head, {"/"}) # <<>> THEN RStrip(head, {"/"}) ELSE head

\* os.path.isabs
isabs(osname, p) ==
    IF osname = "nt"
    THEN LET sd == SplitDrive(Replace(p, "/", "\\")) IN StartsWith(sd.path, <<"\\">>)
    ELSE StartsWith(p, <<"/">>)

\* os.path.expandvars for a string whose first token may be a reference to
\* ROBOTLATEXPATH: an unset variable is left in place
expandvars(path, env) ==
    IF path # <<>> /\ Head(path) \in {"%ROBOTLATEXPATH%", "${ROBOTLATEXPATH}"} /\ env.t = "str"
    THEN env.v \o Tail(path)
    ELSE path

\* os.path.isfile
isfile(fs, path) == path \in fs

------------------------------------------------------------------------------
(* the runtime environment *)

Platforms == {"Windows", "Linux", "Darwin"}

\* os.name on the platform
OSName(system) == IF system = "Windows" THEN "nt" ELSE "posix"

\* sys.executable
Executable(osname) ==
    IF osname = "nt" THEN <<"C:", "\\", "Py39", "\\", "python.exe">>
    ELSE <<"/", "usr", "/", "bin", "/", "python3">>

\* sys.version
PythonVersion == <<"3.9.7 (default, Sep 16 2021)">>

\* the two outcomes of pypandoc.get_pandoc_path(): a path, or OSError(text)
PandocFound == [ok |-> TRUE, v |-> <<"pandoc">>]

PandocMissing == [ok |-> FALSE, v |-> <<"No pandoc was found: either install pandoc and add it to your PATH or or call pypandoc.download_pandoc(...)">>]

\* values ROBOTLATEXPATH may have (None: not set)
EnvValues(osname) ==
    IF osname = "nt" THEN {None, Str(<<"C:", "\\", "tex">>)}
    ELSE {None, Str(<<"/", "opt", "/", "tex", "/">>)}

\* arguments CConfig() is constructed with
ReferencePaths(osname) ==
    IF osname = "nt"
    THEN {<<".">>, <<"C:", "\\", "repo">>, <<"/", "repo">>, <<"sub", "/", "..", "\\", "pkg">>}
    ELSE {<<".">>, <<"/", "repo">>, <<"/", "repo", "/", "/", "x", "/", "..", "/">>, <<"..", "/", "pkg">>}

------------------------------------------------------------------------------
(* CConfig *)

nJust == 30

sPackageName == <<"RobotResults2DB">>

\* ReferencePath with the os.path.abspath call left out
ReferencePath_NoAbspath(osname, arg) == normpath(osname, arg)

\* __init__: self.__sReferencePath
ReferencePath(osname, arg) == normpath(osname, abspath(osname, arg))

\* __init__: the table after the basic setup entries
StaticConfig(ref) ==
    << [k |-> "sReferencePath",              v |-> Str(ref)],
       [k |-> "sPackageName",                v |-> Str(sPackageName)],
       [k |-> "sVersion",                    v |-> Str(<<"1.0.0">>)],
       [k |-> "sAuthor",                     v |-> Str(<<"Tran Duy Ngoan">>)],
       [k |-> "sAuthorEMail",                v |-> Str(<<"Ngoan.TranDuy@vn.bosch.com">>)],
       [k |-> "sDescription",                v |-> Str(<<"Package for importing robot result(s) to TestResultWebApp database">>)],
       [k |-> "sLongDescriptionContentType", v |-> Str(<<"text", "/", "markdown">>)],
       [k |-> "sURL",                        v |-> Str(<<"https:", "/", "/", "github.com", "/", "test-fullautomation", "/", "robotframework-testresultwebapptool">>)],
       [k |-> "sProgrammingLanguage",        v |-> Str(<<"Programming Language :: Python :: 3">>)],
       [k |-> "sLicence",                    v |-> Str(<<"License :: OSI Approved :: Apache Software License">>)],
       [k |-> "sOperatingSystem",            v |-> Str(<<"Operating System :: OS Independent">>)],
       [k |-> "sPythonRequires",             v |-> Str(<<">=3.0">>)],
       [k |-> "sDevelopmentStatus",          v |-> Str(<<"Development Status :: 4 - Beta">>)],
       [k |-> "sIntendedAudience",           v |-> Str(<<"Intended Audience :: Developers">>)],
       [k |-> "sTopic",                      v |-> Str(<<"Topic :: Software Development">>)],
       [k |-> "arInstallRequires",           v |-> List(<<"sphinx", "pypandoc", "colorama">>)] >>

\* the raw (not yet checked) typesetting interpreter path of each branch
LaTeXPath(system, env) ==
    IF system = "Windows"
    THEN normpath(OSName(system), expandvars(<<"%ROBOTLATEXPATH%", "/", "miktex", "/", "bin", "/", "x64", "/", "pdflatex.exe">>, env))
    ELSE normpath(OSName(system), expandvars(<<"${ROBOTLATEXPATH}", "/", "miktex", "/", "bin", "/", "x64", "/", "pdflatex">>, env))

\* TryPandoc with an except branch that swallows the error (sPandoc = None)
TryPandoc_Swallow(dict, pd) ==
    [bSuccess |-> TRUE, sResult |-> <<>>,
     dict |-> DictSet(dict, "sPandoc", IF pd.ok THEN Str(pd.v) ELSE None)]

\* __InitConfig: try / except around pypandoc.get_pandoc_path()
TryPandoc(dict, pd) ==
    IF pd.ok
    THEN [bSuccess |-> TRUE,  sResult |-> <<>>, dict |-> DictSet(dict, "sPandoc", Str(pd.v))]
    ELSE [bSuccess |-> FALSE, sResult |-> pd.v, dict |-> dict]

\* PlatformPaths whose else branch falls back to the Linux layout
PlatformPaths_LinuxFallback(system, sOSName, sPythonPath, env) ==
    IF system = "Windows"
    THEN [bSuccess |-> TRUE, sResult |-> <<>>,
          SPHINXBUILD                |-> sPythonPath \o <<"/", "Scripts", "/", "sphinx-build.exe">>,
          sInstalledPackageFolder    |-> sPythonPath \o <<"/", "Lib", "/", "site-packages", "/">> \o sPackageName,
          sInstalledPackageDocFolder |-> sPythonPath \o <<"/", "Lib", "/", "site-packages", "/">> \o sPackageName \o <<"_doc">>,
          sLaTeXInterpreter          |-> LaTeXPath("Windows", env)]
    ELSE [bSuccess |-> TRUE, sResult |-> <<>>,
          SPHINXBUILD                |-> sPythonPath \o <<"/", "sphinx-build">>,
          sInstalledPackageFolder    |-> sPythonPath \o <<"/", "..", "/", "lib", "/", "python3.9", "/", "site-packages", "/">> \o sPackageName,
          sInstalledPackageDocFolder |-> sPythonPath \o <<"/", "..", "/", "lib", "/", "python3.9", "/", "site-packages", "/">> \o sPackageName \o <<"_doc">>,
          sLaTeXInterpreter          |-> LaTeXPath("Linux", env)]

\* __InitConfig: the platform branches
PlatformPaths(system, sOSName, sPythonPath, env) ==
    IF system = "Windows"
    THEN [bSuccess |-> TRUE, sResult |-> <<>>,
          SPHINXBUILD                |-> sPythonPath \o <<"/", "Scripts", "/", "sphinx-build.exe">>,
          sInstalledPackageFolder    |-> sPythonPath \o <<"/", "Lib", "/", "site-packages", "/">> \o sPackageName,
          sInstalledPackageDocFolder |-> sPythonPath \o <<"/", "Lib", "/", "site-packages", "/">> \o sPackageName \o <<"_doc">>,
          sLaTeXInterpreter          |-> LaTeXPath("Windows", env)]
    ELSE IF system = "Linux"
    THEN [bSuccess |-> TRUE, sResult |-> <<>>,
          SPHINXBUILD                |-> sPythonPath \o <<"/", "sphinx-build">>,
          sInstalledPackageFolder    |-> sPythonPath \o <<"/", "..", "/", "lib", "/", "python3.9", "/", "site-packages", "/">> \o sPackageName,
          sInstalledPackageDocFolder |-> sPythonPath \o <<"/", "..", "/", "lib", "/", "python3.9", "/", "site-packages", "/">> \o sPackageName \o <<"_doc">>,
          sLaTeXInterpreter          |-> LaTeXPath("Linux", env)]
    ELSE [bSuccess |-> FALSE,
          sResult  |-> <<"Operating system ", system, " (", sOSName, ") not supported">>,
          SPHINXBUILD |-> <<>>, sInstalledPackageFolder |-> <<>>,
          sInstalledPackageDocFolder |-> <<>>, sLaTeXInterpreter |-> <<>>]

\* LaTeXOrNone without the os.path.isfile check
LaTeXOrNone_NoCheck(fs, sLaTeXInterpreter) == Str(sLaTeXInterpreter)

\* __InitConfig: a typesetting interpreter that is not a file is stored as None
LaTeXOrNone(fs, sLaTeXInterpreter) ==
    IF ~isfile(fs, sLaTeXInterpreter) THEN None ELSE Str(sLaTeXInterpreter)

\* MissingSphinx with the path left out of the message
MissingSphinx_NoPath(SPHINXBUILD) == <<"Missing Sphinx">>

\* __InitConfig: the message for a missing documentation-build executable
MissingSphinx(SPHINXBUILD) == <<"Missing Sphinx '">> \o SPHINXBUILD \o <<"'">>

SourceDir(osname, ref) == normpath(osname, ref \o <<"/", "doc">>)

BuildDir(osname, SOURCEDIR) == normpath(osname, SOURCEDIR \o <<"/", "_build">>)

\* __InitConfig: the entries relative to the repository root, in the order
\* they are assigned (none of the keys is in the table before)
RepositoryPaths(osname, ref) ==
    LET SOURCEDIR == SourceDir(osname, ref)
        BUILDDIR  == BuildDir(osname, SOURCEDIR)
    IN << [k |-> "sDocumentationBuilder",   v |-> Str(normpath(osname, ref \o <<"/", "sphinx-makeall.py">>))],
          [k |-> "SOURCEDIR",               v |-> Str(SOURCEDIR)],
          [k |-> "BUILDDIR",                v |-> Str(BUILDDIR)],
          [k |-> "sHTMLOutputFolder",       v |-> Str(normpath(osname, BUILDDIR \o <<"/", "html">>))],
          [k |-> "sReadMe_rst",             v |-> Str(normpath(osname, ref \o <<"/", "README.rst">>))],
          [k |-> "sReadMe_md",              v |-> Str(normpath(osname, ref \o <<"/", "README.md">>))],
          [k |-> "sSetupBuildFolder",       v |-> Str(normpath(osname, ref \o <<"/", "build">>))],
          [k |-> "sSetupBuildLibFolder",    v |-> Str(normpath(osname, ref \o <<"/", "build", "/", "lib">>))],
          [k |-> "sSetupBuildLibDocFolder", v |-> Str(normpath(osname, ref \o <<"/", "build", "/", "lib", "/">> \o sPackageName \o <<"_doc">>))],
          [k |-> "sSetupDistFolder",        v |-> Str(normpath(osname, ref \o <<"/", "dist">>))],
          [k |-> "sEggInfoFolder",          v |-> Str(normpath(osname, ref \o <<"/">> \o sPackageName \o <<".egg-info">>))] >>

\* __InitConfig: the entries for the executables and installed folders
ExecutablePaths(pp, sPython, fs) ==
    << [k |-> "SPHINXBUILD",                v |-> Str(pp.SPHINXBUILD)],
       [k |-> "sPython",                    v |-> Str(sPython)],
       [k |-> "sLaTeXInterpreter",          v |-> LaTeXOrNone(fs, pp.sLaTeXInterpreter)],
       [k |-> "sInstalledPackageFolder",    v |-> Str(pp.sInstalledPackageFolder)],
       [k |-> "sInstalledPackageDocFolder", v |-> Str(pp.sInstalledPackageDocFolder)] >>

Blank == [fd |-> "stdout", just |-> 0, s |-> <<>>]

\* PrintConfig: what it prints
PrintConfigOut(dict) ==
    <<Blank>>
    \o [i \in 1..Len(dict) |->
          [fd |-> "stdout", just |-> nJust, s |-> <<dict[i].k, " : ">> \o StrOf(dict[i].v)]]
    \o <<Blank>>

\* InitConfig with the platform branches ahead of the pandoc lookup
InitConfig_OSFirst(dict, ref, system, pd, env, fs) ==
    LET sOSName     == OSName(system)
        sPython     == Executable(sOSName)
        sPythonPath == dirname(sOSName, sPython)
        p           == TryPandoc(dict, pd)
        pp          == PlatformPaths(system, sOSName, sPythonPath, env)
    IN IF ~pp.bSuccess
       THEN [bSuccess |-> FALSE, sResult |-> pp.sResult, dict |-> dict, out |-> <<>>]
       ELSE IF ~p.bSuccess
       THEN [bSuccess |-> FALSE, sResult |-> p.sResult, dict |-> p.dict, out |-> <<>>]
       ELSE IF ~isfile(fs, pp.SPHINXBUILD)
       THEN [bSuccess |-> FALSE, sResult |-> MissingSphinx(pp.SPHINXBUILD), dict |-> p.dict, out |-> <<>>]
       ELSE LET d == p.dict \o ExecutablePaths(pp, sPython, fs) \o RepositoryPaths(sOSName, ref)
            IN [bSuccess |-> TRUE, sResult |-> <<"Repository setup done">>, dict |-> d,
                out |-> <<Blank, [fd |-> "stdout", just |-> 0,
                                  s |-> <<"Running under ", system, " (", sOSName, ")">>]>>
                        \o PrintConfigOut(d)]

\* __InitConfig: (bSuccess, sResult), the table and the output it leaves
InitConfig(dict, ref, system, pd, env, fs) ==
    LET sOSName     == OSName(system)
        sPython     == Executable(sOSName)
        sPythonPath == dirname(sOSName, sPython)
        p           == TryPandoc(dict, pd)
        pp          == PlatformPaths(system, sOSName, sPythonPath, env)
    IN IF ~p.bSuccess
       THEN [bSuccess |-> FALSE, sResult |-> p.sResult, dict |-> p.dict, out |-> <<>>]
       ELSE IF ~pp.bSuccess
       THEN [bSuccess |-> FALSE, sResult |-> pp.sResult, dict |-> p.dict, out |-> <<>>]
       ELSE IF ~isfile(fs, pp.SPHINXBUILD)
       THEN [bSuccess |-> FALSE, sResult |-> MissingSphinx(pp.SPHINXBUILD), dict |-> p.dict, out |-> <<>>]
       ELSE LET d == p.dict \o ExecutablePaths(pp, sPython, fs) \o RepositoryPaths(sOSName, ref)
            IN [bSuccess |-> TRUE, sResult |-> <<"Repository setup done">>, dict |-> d,
                out |-> <<Blank, [fd |-> "stdout", just |-> 0,
                                  s |-> <<"Running under ", system, " (", sOSName, ")">>]>>
                        \o PrintConfigOut(d)]

\* the name given to Get() when it is called without one (sName is None)
NoName == "<None>"

NameStr(sName) == IF sName = NoName THEN "None" ELSE sName

\* printerror
printerror(sMsg) == [fd |-> "stderr", just |-> 0, s |-> <<"Error: ">> \o sMsg \o <<"!\n">>]

\* Get as a bare self.__dictConfig[sName]: KeyError for a name that is no key
GetResult_KeyError(dict, sName) ==
    IF sName = NoName \/ ~DictHas(dict, sName)
    THEN [raised |-> TRUE, ret |-> None, out |-> <<>>]
    ELSE [raised |-> FALSE, ret |-> DictGet(dict, sName), out |-> <<>>]

\* Get returning str(self.__dictConfig[sName]) for a known name
GetResult_StrValue(dict, sName) ==
    IF sName = NoName \/ ~DictHas(dict, sName)
    THEN [raised |-> FALSE, ret |-> None,
          out |-> <<Blank,
                    printerror(<<"Error: Configuration parameter '", NameStr(sName), "' not existing">>),
                    [fd |-> "stdout", just |-> 0, s |-> <<"Use instead one of:">>]>>
                  \o PrintConfigOut(dict)]
    ELSE [raised |-> FALSE, ret |-> Str(StrOf(DictGet(dict, sName))), out |-> <<>>]

\* Get: whether it raises, what it returns and what it writes
GetResult(dict, sName) ==
    IF sName = NoName \/ ~DictHas(dict, sName)
    THEN [raised |-> FALSE, ret |-> None,
          out |-> <<Blank,
                    printerror(<<"Error: Configuration parameter '", NameStr(sName), "' not existing">>),
                    [fd |-> "stdout", just |-> 0, s |-> <<"Use instead one of:">>]>>
                  \o PrintConfigOut(dict)]
    ELSE [raised |-> FALSE, ret |-> DictGet(dict, sName), out |-> <<>>]

\* names Get is called with
Names == {"SOURCEDIR", "BUILDDIR", "sLaTeXInterpreter", "arInstallRequires", "sPython",
          "sPlatformSystem", NoName}

NoCall == [op |-> "none", sName |-> NoName, raised |-> FALSE, ret |-> None, from |-> 0]

------------------------------------------------------------------------------
(* the state machine *)

\* the files the platform branches may look for
CandidateFiles(system, env) ==
    LET osname == OSName(system)
        pp == PlatformPaths(IF osname = "nt" THEN "Windows" ELSE "Linux", osname,
                            dirname(osname, Executable(osname)), env)
    IN {pp.SPHINXBUILD, pp.sLaTeXInterpreter}

Init ==
    /\ sPlatformSystem \in Platforms
    /\ pandoc \in {PandocFound, PandocMissing}
    /\ environ \in EnvValues(OSName(sPlatformSystem))
    /\ files \in SUBSET CandidateFiles(sPlatformSystem, environ)
    /\ pc = "Uninitialized"
    /\ sReferencePath = <<>>
    /\ dictConfig = <<>>
    /\ exception = None
    /\ out = <<>>
    /\ last = NoCall
    /\ nCalls = 0

\* CConfig(sReferencePath)
Construct(arg) ==
    /\ pc = "Uninitialized"
    /\ LET osname == OSName(sPlatformSystem)
           ref    == ReferencePath(osname, arg)
           r      == InitConfig(StaticConfig(ref), ref, sPlatformSystem, pandoc, environ, files)
       IN /\ sReferencePath' = arg
          /\ dictConfig' = r.dict
          /\ IF r.bSuccess
             THEN /\ pc' = "Ready"
                  /\ exception' = None
                  /\ out' = out \o r.out \o <<[fd |-> "stdout", just |-> 0, s |-> r.sResult], Blank>>
             ELSE /\ pc' = "Failed"
                  /\ exception' = Str(r.sResult)
                  /\ out' = out \o r.out
    /\ UNCHANGED <<sPlatformSystem, pandoc, environ, files, last, nCalls>>

\* oConfig.Get(sName)
Get(sName) ==
    /\ pc = "Ready"
    /\ nCalls < MaxCalls
    /\ LET r == GetResult(dictConfig, sName)
       IN /\ out' = out \o r.out
          /\ last' = [op |-> "Get", sName |-> sName, raised |-> r.raised, ret |-> r.ret,
                      from |-> Len(out)]
    /\ nCalls' = nCalls + 1
    /\ UNCHANGED <<sPlatformSystem, pandoc, environ, files, pc, sReferencePath,
                   dictConfig, exception>>

\* oConfig.PrintConfig()
PrintConfig ==
    /\ pc = "Ready"
    /\ nCalls < MaxCalls
    /\ out' = out \o PrintConfigOut(dictConfig)
    /\ last' = [op |-> "PrintConfig", sName |-> NoName, raised |-> FALSE, ret |-> None,
                from |-> Len(out)]
    /\ nCalls' = nCalls + 1
    /\ UNCHANGED <<sPlatformSystem, pandoc, environ, files, pc, sReferencePath,
                   dictConfig, exception>>

Next ==
    \/ \E arg \in ReferencePaths(OSName(sPlatformSystem)) : Construct(arg)
    \/ \E sName \in Names : Get(sName)
    \/ PrintConfig

Spec == Init /\ [][Next]_vars

------------------------------------------------------------------------------
(* properties *)

Constructed == pc # "Uninitialized"

Supported == sPlatformSystem \in {"Windows", "Linux"}

sOSNameNow == OSName(sPlatformSystem)

\* the documentation-build executable path computed on the platform
SphinxBuildPath == PlatformPaths(sPlatformSystem, sOSNameNow,
                                 dirname(sOSNameNow, Executable(sOSNameNow)), environ).SPHINXBUILD

\* the typesetting interpreter path computed on the platform
LaTeXInterpreterPath == LaTeXPath(sPlatformSystem, environ)

UnsupportedMessage ==
    <<"Operating system ", sPlatformSystem, " (", sOSNameNow, ") not supported">>

\* the output written by the most recent call
LastOutput == SubSeq(out, last.from + 1, Len(out))

\* C1: on a platform that is neither Windows nor Linux construction always
\* ends in Failed: an exception is raised, and no Get or PrintConfig call is
\* ever made on an instance, whatever the state of pandoc and of the files.
C1_UnsupportedPlatformFails ==
    (Constructed /\ ~Supported) =>
        /\ pc = "Failed"
        /\ exception.t = "str"
        /\ last = NoCall
        /\ nCalls = 0

C1_Witness ==
    /\ pc = "Failed" /\ ~Supported /\ pandoc.ok
    /\ isfile(files, <<"/", "usr", "/", "bin", "/", "sphinx-build">>)

\* C2: whenever pandoc cannot be located construction fails and the message
\* of the raised exception contains the text of the error pypandoc reported,
\* on every platform and for every state of the files.
C2_PandocMissingFails ==
    (Constructed /\ ~pandoc.ok) =>
        /\ pc = "Failed"
        /\ exception.t = "str"
        /\ Contains(exception.v, PandocMissing.v)

C2_Witness ==
    /\ pc = "Failed" /\ ~pandoc.ok /\ Supported /\ isfile(files, SphinxBuildPath)

\* C3 as stated: the reported error is that of the first failing check in the
\* order operating system, conversion tool, build executable.
C3_OSCheckedFirst ==
    pc = "Failed" =>
        exception.v = IF ~Supported THEN UnsupportedMessage
                      ELSE IF ~pandoc.ok THEN pandoc.v
                      ELSE MissingSphinx(SphinxBuildPath)

\* C3 (amended): the fatal checks are made in the order conversion tool,
\* operating system, build executable; construction fails exactly when one of
\* them fails and reports the error of the first failing check in that order.
\* With an unsupported platform and no pandoc the pandoc error is reported.
C3_PandocCheckedFirst ==
    Constructed =>
        /\ pc = "Failed" <=> (~pandoc.ok \/ ~Supported \/ ~isfile(files, SphinxBuildPath))
        /\ pc = "Failed" =>
              exception.v = IF ~pandoc.ok THEN pandoc.v
                            ELSE IF ~Supported THEN UnsupportedMessage
                            ELSE <<"Missing Sphinx '">> \o SphinxBuildPath \o <<"'">>

C3_Witness == pc = "Failed" /\ ~Supported /\ ~pandoc.ok

\* C4: on a supported platform with pandoc found, a build executable path that
\* is not an existing file makes construction fail with a message containing
\* that path, whether or not the typesetting interpreter exists; no instance
\* is returned and neither the table nor the banner is printed.
C4_MissingSphinxFails ==
    (Constructed /\ Supported /\ pandoc.ok /\ ~isfile(files, SphinxBuildPath)) =>
        /\ pc = "Failed"
        /\ exception.t = "str"
        /\ Contains(exception.v, SphinxBuildPath)
        /\ SphinxBuildPath =
              IF sPlatformSystem = "Windows"
              THEN <<"C:", "\\", "Py39", "/", "Scripts", "/", "sphinx-build.exe">>
              ELSE <<"/", "usr", "/", "bin", "/", "sphinx-build">>
        /\ out = <<>>
        /\ last = NoCall

C4_Witness ==
    /\ pc = "Failed" /\ Supported /\ pandoc.ok
    /\ ~isfile(files, SphinxBuildPath) /\ isfile(files, LaTeXInterpreterPath)

\* C5: on a supported platform with pandoc and the build executable present, a
\* typesetting interpreter path that is not an existing file leaves
\* construction successful; sLaTeXInterpreter is a key of the table with value
\* None, and Get("sLaTeXInterpreter") returns None without writing anything.
C5_MissingLaTeXIsNone ==
    (Constructed /\ Supported /\ pandoc.ok /\ isfile(files, SphinxBuildPath)
       /\ ~isfile(files, LaTeXInterpreterPath)) =>
        /\ pc = "Ready"
        /\ exception = None
        /\ DictHas(dictConfig, "sLaTeXInterpreter")
        /\ DictGet(dictConfig, "sLaTeXInterpreter") = None
        /\ (last.op = "Get" /\ last.sName = "sLaTeXInterpreter") =>
              /\ ~last.raised
              /\ last.ret = None
              /\ LastOutput = <<>>

C5_Witness ==
    /\ pc = "Ready" /\ ~isfile(files, LaTeXInterpreterPath)
    /\ last.op = "Get" /\ last.sName = "sLaTeXInterpreter" /\ last.ret = None

\* a step that is a call Get(sName) with sName None or not a key of the table
GetUnknownStep ==
    /\ nCalls' = nCalls + 1
    /\ last'.op = "Get"
    /\ (last'.sName = NoName \/ last'.sName \notin DictKeys(dictConfig))

\* C6: Get with a name that is not a key, or with no name, never raises: it
\* writes one error naming the parameter to stderr, after that prints the full
\* table to stdout, returns None and leaves the table unchanged.
C6_GetUnknownReportsAndReturnsNone ==
    [][GetUnknownStep =>
        /\ ~last'.raised
        /\ last'.ret = None
        /\ dictConfig' = dictConfig
        /\ pc' = "Ready"
        /\ LET seg   == SubSeq(out', Len(out) + 1, Len(out'))
               table == PrintConfigOut(dictConfig)
           IN /\ SubSeq(out', 1, Len(out)) = out
              /\ Len(seg) > Len(table)
              /\ SubSeq(seg, Len(seg) - Len(table) + 1, Len(seg)) = table
              /\ \E e \in 1..(Len(seg) - Len(table)) :
                    /\ seg[e].fd = "stderr"
                    /\ Contains(seg[e].s, <<"Error: Configuration parameter '",
                                            NameStr(last'.sName), "' not existing">>)
                    /\ \A j \in 1..Len(seg) : j # e => seg[j].fd = "stdout"]_vars

C6_Witness ==
    /\ pc = "Ready" /\ last.op = "Get" /\ last.sName = "sPlatformSystem"
    /\ last.ret = None /\ nCalls = 2
    /\ \E i \in 1..Len(out) : out[i].fd = "stderr"

\* the table as construction stores it in this environment
StoredTable ==
    LET ref == normpath(sOSNameNow, abspath(sOSNameNow, sReferencePath))
    IN InitConfig(StaticConfig(ref), ref, sPlatformSystem, pandoc, environ, files).dict

\* C7: after a successful construction no sequence of Get and PrintConfig
\* calls changes the table, and Get(k) for a key k returns exactly the value
\* construction stored, however many calls were made before.
C7_TableIsWriteOnce ==
    pc = "Ready" =>
        /\ dictConfig = StoredTable
        /\ (last.op = "Get" /\ last.sName \in DictKeys(StoredTable)) =>
              /\ ~last.raised
              /\ last.ret = DictGet(StoredTable, last.sName)

C7_Witness ==
    /\ pc = "Ready" /\ nCalls = 2 /\ last.op = "Get" /\ last.sName = "arInstallRequires"
    /\ last.ret = List(<<"sphinx", "pypandoc", "colorama">>)
    /\ \E i \in 1..Len(out) : out[i].fd = "stderr"

\* the keys whose values denote filesystem paths
PathKeys ==
    {"sReferencePath", "SPHINXBUILD", "sPython", "sLaTeXInterpreter",
     "sInstalledPackageFolder", "sInstalledPackageDocFolder", "sDocumentationBuilder",
     "SOURCEDIR", "BUILDDIR", "sHTMLOutputFolder", "sReadMe_rst", "sReadMe_md",
     "sSetupBuildFolder", "sSetupBuildLibFolder", "sSetupBuildLibDocFolder",
     "sSetupDistFolder", "sEggInfoFolder"}

IsNormalizedAbsolute(osname, path) ==
    isabs(osname, path) /\ normpath(osname, path) = path

\* C8: in every Ready state every value of the table is a string or None, and
\* every value that denotes a path is absolute and normalized.
C8_ValuesAreStringsAndNormalizedPaths ==
    pc = "Ready" =>
        \A i \in 1..Len(dictConfig) :
            /\ dictConfig[i].v.t \in {"str", "none"}
            /\ (dictConfig[i].k \in PathKeys /\ dictConfig[i].v.t = "str") =>
                  IsNormalizedAbsolute(sOSNameNow, dictConfig[i].v.v)

\* C9: for every reference path R construction succeeds with, SOURCEDIR is
\* normalize(absolute(R) + "/doc") and BUILDDIR is
\* normalize(SOURCEDIR + "/_build"), on both platforms and with or without
\* the typesetting interpreter; R = "/repo" gives "/repo/doc" and
\* "/repo/doc/_build" (with the platform's drive and separators on Windows).
C9_SourceAndBuildDir ==
    pc = "Ready" =>
        LET src == DictGet(dictConfig, "SOURCEDIR")
            bld == DictGet(dictConfig, "BUILDDIR")
        IN /\ src = Str(normpath(sOSNameNow, abspath(sOSNameNow, sReferencePath) \o <<"/", "doc">>))
           /\ bld = Str(normpath(sOSNameNow, src.v \o <<"/", "_build">>))
           /\ (last.op = "Get" /\ last.sName = "SOURCEDIR") => last.ret = src
           /\ (last.op = "Get" /\ last.sName = "BUILDDIR") => last.ret = bld
           /\ (sReferencePath = <<"/", "repo">> /\ sPlatformSystem = "Linux") =>
                 /\ src.v = <<"/", "repo", "/", "doc">>
                 /\ bld.v = <<"/", "repo", "/", "doc", "/", "_build">>
           /\ (sReferencePath = <<"/", "repo">> /\ sPlatformSystem = "Windows") =>
                 /\ src.v = <<"C:", "\\", "repo", "\\", "doc">>
                 /\ bld.v = <<"C:", "\\", "repo", "\\", "doc", "\\", "_build">>

C9_Witness ==
    /\ pc = "Ready" /\ sReferencePath = <<"..", "/", "pkg">>
    /\ ~isfile(files, LaTeXInterpreterPath)
    /\ last.op = "Get" /\ last.sName = "BUILDDIR"
    /\ last.ret = Str(<<"/", "pkg", "/", "doc", "/", "_build">>)

\* C10: in every Ready state the table holds the interpreter path, the
\* interpreter version and the detected platform name.
C10_EnvironmentEntriesStored ==
    pc = "Ready" =>
        /\ \E i \in 1..Len(dictConfig) : dictConfig[i].v = Str(Executable(sOSNameNow))
        /\ \E i \in 1..Len(dictConfig) : dictConfig[i].v = Str(PythonVersion)
        /\ \E i \in 1..Len(dictConfig) : dictConfig[i].v = Str(<<sPlatformSystem>>)

====
